---- MODULE Spec2Model ----
(***************************************************************************)
(* A model of the mapto post store: the PostgreSQL-backed server           *)
(* (src/server.js) and the in-memory server (src/unnamed/part_000).        *)
(*                                                                         *)
(* Strings are run-length encoded: a string is a sequence of runs          *)
(* [c |-> character, n |-> repetitions], n >= 1, adjacent runs of          *)
(* different characters.  The alphabet has one BMP letter "a", one         *)
(* whitespace character " ", one astral character "E" (one code point, two *)
(* UTF-16 code units) and "H", the lone high surrogate that is left when a *)
(* code-unit slice cuts an astral character in two.                        *)
(*                                                                         *)
(* Coordinates are integers in millidegrees; all points lie on one         *)
(* meridian (Lng), where the haversine formula reduces to the meridian arc.*)
(* Time is milliseconds since the epoch at which the model starts.         *)
(***************************************************************************)
EXTENDS Integers, Sequences, FiniteSets, TLC

VARIABLES backend, posts, now, nextId, awaiting, likesGiven, last
VARIABLES running
VARIABLES windows, buildNow, cursor, schedule, earlier, nextTrigger
VARIABLES capability, permission, page, lastEvent
VARIABLES swQueue, handlers, scheduledTags, armed, sent

\* the post store and its handlers
serverVars == <<backend, posts, nextId, awaiting, likesGiven, last>>
\* the server process
processVars == <<running>>
\* buildReminderSchedule() and computeNextTrigger() of the page
buildVars == <<windows, buildNow, cursor, schedule, earlier, nextTrigger>>

\* the browser and the page: main.js
pageVars == <<capability, permission, page, lastEvent>>
\* the service worker and the notifications it armed: service-worker.js
workerVars == <<swQueue, handlers, scheduledTags, armed, sent>>

\* everything but the post store and the clock
elsewhere == <<processVars, buildVars, pageVars, workerVars>>

vars == <<serverVars, now, elsewhere>>

(***************************************************************************)
(* Bounds of the model.                                                    *)
(***************************************************************************)
MaxRuns == 3
MaxCreates == 2
MaxLikes == 2
MaxInflight == 2
MaxSkew == 1
MaxDays == 1

(***************************************************************************)
(* Program constants.                                                      *)
(***************************************************************************)
POST_TTL_MS == 24 * 60 * 60 * 1000
DEFAULT_RADIUS_METERS == 5000
SqlTextLimit == 500
SqlMoodLimit == 4
MemTextLimit == 500
MemMoodLimit == 8
EarthRadiusMeters == 6371000
PiNum == 355
PiDen == 113

(***************************************************************************)
(* JavaScript values.                                                      *)
(***************************************************************************)
Str(runs) == [type |-> "string", runs |-> runs]
Undefined == [type |-> "undefined", runs |-> <<>>]
Null == [type |-> "null", runs |-> <<>>]
Run(c, n) == [c |-> c, n |-> n]

Num(v) == [finite |-> TRUE, val |-> v]
NaN == [finite |-> FALSE, val |-> 0]

\* A raw request value: a JSON number or numeric string, or anything else.
RawNum(v) == [type |-> "number", val |-> v]
RawMissing == [type |-> "undefined", val |-> 0]

ParseFloat(raw) == IF raw.type = "number" THEN Num(raw.val) ELSE NaN

IsWhiteSpace(c) == c = " "
CodeUnits(c) == IF c = "E" THEN 2 ELSE 1

RECURSIVE TrimStart(_)
TrimStart(s) ==
    IF s = <<>> THEN <<>>
    ELSE IF IsWhiteSpace(Head(s).c) THEN TrimStart(Tail(s)) ELSE s

RECURSIVE TrimEnd(_)
TrimEnd(s) ==
    IF s = <<>> THEN <<>>
    ELSE IF IsWhiteSpace(s[Len(s)].c) THEN TrimEnd(SubSeq(s, 1, Len(s) - 1))
    ELSE s

\* String.prototype.trim
Trim(s) == TrimEnd(TrimStart(s))

RECURSIVE CodePointLength(_)
CodePointLength(s) ==
    IF s = <<>> THEN 0 ELSE Head(s).n + CodePointLength(Tail(s))

RECURSIVE CodeUnitLength(_)
CodeUnitLength(s) ==
    IF s = <<>> THEN 0
    ELSE Head(s).n * CodeUnits(Head(s).c) + CodeUnitLength(Tail(s))

\* Array.from(s).slice(0, k).join(""): the first k code points.
RECURSIVE ArrayFromSlice(_, _)
ArrayFromSlice(s, k) ==
    IF s = <<>> \/ k <= 0 THEN <<>>
    ELSE IF Head(s).n <= k
         THEN <<Head(s)>> \o ArrayFromSlice(Tail(s), k - Head(s).n)
         ELSE <<Run(Head(s).c, k)>>

\* s.slice(0, k): the first k UTF-16 code units.
RECURSIVE StringSlice(_, _)
StringSlice(s, k) ==
    IF s = <<>> \/ k <= 0 THEN <<>>
    ELSE LET w == CodeUnits(Head(s).c)
             whole == k \div w
         IN IF Head(s).n * w <= k
            THEN <<Head(s)>> \o StringSlice(Tail(s), k - Head(s).n * w)
            ELSE (IF whole > 0 THEN <<Run(Head(s).c, whole)>> ELSE <<>>)
                 \o (IF k % w = 1 THEN <<Run("H", 1)>> ELSE <<>>)

(***************************************************************************)
(* src/server.js: sanitization.                                            *)
(***************************************************************************)
SanitizeText(value) ==
    IF value.type # "string" THEN Str(<<>>)
    ELSE LET trimmed == Trim(value.runs)
         IN IF trimmed = <<>> THEN Str(<<>>)
            ELSE LET limited == ArrayFromSlice(trimmed, SqlTextLimit)
                 IN IF limited # <<>> THEN Str(limited) ELSE Str(trimmed)

SanitizeMood(value) ==
    IF value.type # "string" THEN Str(<<>>)
    ELSE LET trimmed == Trim(value.runs)
         IN IF trimmed = <<>> THEN Str(<<>>)
            ELSE LET limited == ArrayFromSlice(trimmed, SqlMoodLimit)
                 IN IF limited # <<>> THEN Str(limited) ELSE Str(trimmed)

\* a mood that is stored as it was sanitized, the empty string included
OrItself(v) == v

\* x || null, for a string x
OrNull(v) == IF v.runs = <<>> THEN Null ELSE v

\* a check that forgets to trim
HasUntrimmedContent(v) == v.type = "string" /\ CodeUnitLength(v.runs) > 0

\* typeof v === "string" && v.trim().length > 0
HasContent(v) == v.type = "string" /\ CodeUnitLength(Trim(v.runs)) > 0

\* server.js, POST /api/posts: the text and mood it would store, and whether
\* it accepts them
SqlCandidate(body) ==
    LET hasText == HasContent(body.text)
        hasMood == HasContent(body.mood)
        sanitizedText == SanitizeText(body.text)
        sanitizedMood == SanitizeMood(body.mood)
    IN [accepted |-> ~(~hasText /\ ~hasMood),
        text |-> sanitizedText,
        mood |-> OrNull(sanitizedMood)]

(***************************************************************************)
(* src/unnamed/part_000: sanitization in the POST handler.                 *)
(***************************************************************************)
MemSanitizeText(text) ==
    LET rawText == IF text.type = "string" THEN text.runs ELSE <<>>
    IN Str(StringSlice(Trim(rawText), MemTextLimit))

MemSanitizeMood(mood) ==
    LET rawMood == IF mood.type = "string" THEN mood.runs ELSE <<>>
    IN Str(StringSlice(Trim(rawMood), MemMoodLimit))

\* part_000, POST /api/posts: the text and mood it would store, and whether
\* it accepts them
MemCandidate(body) ==
    LET sanitizedText == MemSanitizeText(body.text)
        sanitizedMood == MemSanitizeMood(body.mood)
    IN [accepted |-> ~(sanitizedText.runs = <<>> /\ sanitizedMood.runs = <<>>),
        text |-> sanitizedText,
        mood |-> OrNull(sanitizedMood)]

(***************************************************************************)
(* Posts.  A row of the posts table and an element of the posts array have *)
(* the same fields.                                                        *)
(***************************************************************************)
Uuid(k) == [uuid |-> TRUE, n |-> k]
\* a path parameter that is no UUID, e.g. /api/posts/abc/like
MalformedId == [uuid |-> FALSE, n |-> 0]

Post(id, lat, lng, text, mood, timestamp, likes) ==
    [id |-> id, lat |-> lat, lng |-> lng, text |-> text, mood |-> mood,
     timestamp |-> timestamp, likes |-> likes]

Abs(x) == IF x < 0 THEN -x ELSE x

\* For two points of one meridian dLng = 0, so a = sin^2(dLat / 2) and
\* c = 2 * atan2(sqrt(a), sqrt(1 - a)) = |dLat| in radians: the result is
\* R * |dLat| * PI / 180, here with dLat in millidegrees and PI = 355 / 113.
DistanceInMeters(lat1, lng1, lat2, lng2) ==
    ((EarthRadiusMeters \div 1000) * Abs(lat2 - lat1) * PiNum)
        \div (180 * PiDen)

\* arr.splice(i, 1)
Splice(arr, i) == SubSeq(arr, 1, i - 1) \o SubSeq(arr, i + 1, Len(arr))

(***************************************************************************)
(* purgeExpiredPosts                                                       *)
(***************************************************************************)
RECURSIVE MemPurgeLoop(_, _, _)
MemPurgeLoop(arr, i, cutoff) ==
    IF i < 1 THEN arr
    ELSE MemPurgeLoop(IF arr[i].timestamp < cutoff THEN Splice(arr, i) ELSE arr,
                      i - 1, cutoff)

\* a loop that walks forward while it splices, and so skips the element
\* that moves into the freed slot
RECURSIVE MemPurgeForward(_, _, _)
MemPurgeForward(arr, i, cutoff) ==
    IF i > Len(arr) THEN arr
    ELSE MemPurgeForward(IF arr[i].timestamp < cutoff THEN Splice(arr, i) ELSE arr,
                         i + 1, cutoff)

MemPurgeSkipping(arr, t) == MemPurgeForward(arr, 1, t - POST_TTL_MS)

\* a purge that compares with <= and so takes the post aged exactly the TTL
MemPurgeThrough(arr, t) ==
    LET cutoff == t - POST_TTL_MS
        Keep(p) == ~(p.timestamp <= cutoff)
    IN SelectSeq(arr, Keep)

\* src/unnamed/part_000
MemPurgeExpiredPosts(arr, t) == MemPurgeLoop(arr, Len(arr), t - POST_TTL_MS)

\* src/server.js: DELETE FROM posts WHERE timestamp < cutoff
SqlPurgeExpiredPosts(rows, t) ==
    LET cutoff == t - POST_TTL_MS
        Keep(r) == ~(r.timestamp < cutoff)
    IN SelectSeq(rows, Keep)

PurgeExpiredPosts(store, t) ==
    IF backend = "mem" THEN MemPurgeExpiredPosts(store, t)
    ELSE SqlPurgeExpiredPosts(store, t)

(***************************************************************************)
(* The listing path.                                                       *)
(***************************************************************************)
\* node-postgres hands a BIGINT column over as decimal text
RECURSIVE DecimalText(_)
DecimalText(k) ==
    IF k < 10 THEN <<k>> ELSE Append(DecimalText(k \div 10), k % 10)

\* Number(text) of decimal text
RECURSIVE ToNumber(_)
ToNumber(d) ==
    IF Len(d) = 1 THEN d[1]
    ELSE 10 * ToNumber(SubSeq(d, 1, Len(d) - 1)) + d[Len(d)]

\* a row as the driver returns it
ResultRow(r) == [r EXCEPT !.timestamp = DecimalText(r.timestamp)]

\* Rows come from NOT NULL numeric columns that createPost filled with
\* finite values, so the null result for a non-finite lat, lng or timestamp
\* does not arise.
NormalizeRow(entry) ==
    Post(entry.id, entry.lat, entry.lng,
         SanitizeText(entry.text), OrNull(SanitizeMood(entry.mood)),
         ToNumber(entry.timestamp),
         IF entry.likes >= 0 THEN entry.likes ELSE 0)

\* a SELECT that lost its WHERE clause
SqlSelectAll(rows, t) == rows

\* SELECT ... FROM posts WHERE timestamp >= cutoff, in table order
SqlSelectRecent(rows, t) ==
    LET cutoff == t - POST_TTL_MS
        Recent(r) == r.timestamp >= cutoff
    IN SelectSeq(rows, Recent)

\* the orders in which a SELECT without ORDER BY may return the rows
Orders(n) == {f \in [1..n -> 1..n] : \A i, j \in 1..n : i # j => f[i] # f[j]}
Reorder(s, f) == [i \in 1..Len(s) |-> s[f[i]]]

FetchRecentPosts(rows, t, f) ==
    LET sel == Reorder(SqlSelectRecent(rows, t), f)
    IN [i \in 1..Len(sel) |-> NormalizeRow(ResultRow(sel[i]))]

\* the comparator turned around: a.timestamp - b.timestamp
RECURSIVE InsertOldestFirst(_, _)
InsertOldestFirst(sorted, p) ==
    IF sorted = <<>> THEN <<p>>
    ELSE IF Head(sorted).timestamp <= p.timestamp
         THEN <<Head(sorted)>> \o InsertOldestFirst(Tail(sorted), p)
         ELSE <<p>> \o sorted

\* Array.prototype.sort((a, b) => b.timestamp - a.timestamp): stable
RECURSIVE InsertNewestFirst(_, _)
InsertNewestFirst(sorted, p) ==
    IF sorted = <<>> THEN <<p>>
    ELSE IF Head(sorted).timestamp >= p.timestamp
         THEN <<Head(sorted)>> \o InsertNewestFirst(Tail(sorted), p)
         ELSE <<p>> \o sorted

RECURSIVE SortNewestFirst(_)
SortNewestFirst(s) ==
    IF s = <<>> THEN <<>>
    ELSE InsertNewestFirst(SortNewestFirst(SubSeq(s, 1, Len(s) - 1)), s[Len(s)])

WithAge(p, t) ==
    [id |-> p.id, lat |-> p.lat, lng |-> p.lng, text |-> p.text,
     mood |-> p.mood, timestamp |-> p.timestamp, likes |-> p.likes,
     ageMs |-> t - p.timestamp]

\* filter by distance, sort newest first, annotate with ageMs
Nearby(list, lat, lng, radiusMeters, t) ==
    LET Near(p) == DistanceInMeters(lat, lng, p.lat, p.lng) <= radiusMeters
        sorted == SortNewestFirst(SelectSeq(list, Near))
    IN [i \in 1..Len(sorted) |-> WithAge(sorted[i], t)]

\* parseFloat(req.query.radius) || DEFAULT_RADIUS_METERS
RadiusMeters(raw) ==
    LET r == ParseFloat(raw)
    IN IF ~r.finite \/ r.val = 0 THEN DEFAULT_RADIUS_METERS ELSE r.val

(***************************************************************************)
(* Requests and responses.  last is the most recent response (or purge     *)
(* pass): its kind, the HTTP status, the JSON body as a sequence, the      *)
(* request it answers, the store as the operation found it, the number of  *)
(* posts removed by the purge pass (a handler of part_000 purges in the    *)
(* same step as it answers), and the time of the operation.                *)
(***************************************************************************)
Kinds == {"get", "post", "like"}

Body(lat, lng, text, mood) == [lat |-> lat, lng |-> lng, text |-> text, mood |-> mood]
Query(lat, lng, radius) == [lat |-> lat, lng |-> lng, radius |-> radius]

Resp(kind, status, json, req, before, removed, t) ==
    [kind |-> kind, status |-> status, json |-> json, req |-> req,
     before |-> before, removed |-> removed, at |-> t]

NoResp == Resp("none", 0, <<>>, <<>>, <<>>, 0, 0)

PurgePass(store, t) ==
    LET purged == PurgeExpiredPosts(store, t)
    IN Resp("purge", 0, <<>>, <<>>, store, Len(store) - Len(purged), t)

InFlight == awaiting["get"] + awaiting["post"] + awaiting["like"]

Matching(store, id) == {i \in 1..Len(store) : store[i].id = id}

\* a like that also refreshes the post's timestamp
MemIncrementAndTouch(arr, id) ==
    LET i == CHOOSE k \in Matching(arr, id) : \A m \in Matching(arr, id) : k <= m
    IN [arr EXCEPT ![i].likes = @ + 1, ![i].timestamp = now]

\* posts.find(...); post.likes += 1
MemIncrementLikes(arr, id) ==
    LET i == CHOOSE k \in Matching(arr, id) : \A m \in Matching(arr, id) : k <= m
    IN [arr EXCEPT ![i].likes = @ + 1]

\* an UPDATE that lost its WHERE clause
SqlIncrementEveryRow(rows, id) ==
    [i \in 1..Len(rows) |-> [rows[i] EXCEPT !.likes = @ + 1]]

\* UPDATE posts SET likes = likes + 1 WHERE id = $1
SqlIncrementLikes(rows, id) ==
    [i \in 1..Len(rows) |->
        IF rows[i].id = id THEN [rows[i] EXCEPT !.likes = @ + 1] ELSE rows[i]]

(***************************************************************************)
(* src/unnamed/part_000: the handlers run to completion, one at a time.    *)
(***************************************************************************)
MemGetReq(q) ==
    /\ backend = "mem"
    /\ LET purged == MemPurgeExpiredPosts(posts, now)
           lat == ParseFloat(q.lat)
           lng == ParseFloat(q.lng)
           radiusMeters == RadiusMeters(q.radius)
       IN /\ posts' = purged
          /\ last' = IF ~lat.finite \/ ~lng.finite \/ radiusMeters <= 0
                     THEN Resp("get", 400, <<>>, q, purged, Len(posts) - Len(purged), now)
                     ELSE Resp("get", 200,
                               Nearby(purged, lat.val, lng.val, radiusMeters, now),
                               q, purged, Len(posts) - Len(purged), now)
    /\ UNCHANGED <<backend, now, nextId, awaiting, likesGiven, elsewhere>>

MemPostReq(body) ==
    /\ backend = "mem"
    /\ LET purged == MemPurgeExpiredPosts(posts, now)
           latNum == ParseFloat(body.lat)
           lngNum == ParseFloat(body.lng)
           candidate == MemCandidate(body)
           post == Post(Uuid(nextId), latNum.val, lngNum.val, candidate.text,
                        candidate.mood, now, 0)
       IN IF ~latNum.finite \/ ~lngNum.finite \/ ~candidate.accepted
          THEN /\ posts' = purged
               /\ nextId' = nextId
               /\ last' = Resp("post", 400, <<>>, body, purged, Len(posts) - Len(purged), now)
          ELSE /\ nextId <= MaxCreates
               /\ posts' = Append(purged, post)
               /\ nextId' = nextId + 1
               /\ last' = Resp("post", 201, <<post>>, body, purged, Len(posts) - Len(purged), now)
    /\ UNCHANGED <<backend, now, awaiting, likesGiven, elsewhere>>

MemLikeReq(id) ==
    /\ backend = "mem"
    /\ LET purged == MemPurgeExpiredPosts(posts, now)
       IN IF Matching(purged, id) = {}
          THEN /\ posts' = purged
               /\ likesGiven' = likesGiven
               /\ last' = Resp("like", 404, <<>>, id, purged, Len(posts) - Len(purged), now)
          ELSE LET liked == MemIncrementLikes(purged, id)
                   i == CHOOSE k \in Matching(liked, id) : TRUE
               IN /\ likesGiven[id.n] < MaxLikes
                  /\ posts' = liked
                  /\ likesGiven' = [likesGiven EXCEPT ![id.n] = @ + 1]
                  /\ last' = Resp("like", 200,
                                  <<[id |-> liked[i].id, likes |-> liked[i].likes]>>,
                                  id, purged, Len(posts) - Len(purged), now)
    /\ UNCHANGED <<backend, now, nextId, awaiting, elsewhere>>

(***************************************************************************)
(* src/server.js: every handler awaits purgeExpiredPosts() and then its    *)
(* own statement; other handlers run between the two.                      *)
(***************************************************************************)
SqlBegin(kind) ==
    /\ backend = "sql"
    /\ InFlight < MaxInflight
    /\ posts' = SqlPurgeExpiredPosts(posts, now)
    /\ awaiting' = [awaiting EXCEPT ![kind] = @ + 1]
    /\ last' = PurgePass(posts, now)
    /\ UNCHANGED <<backend, now, nextId, likesGiven, elsewhere>>

SqlGetReq(q, f) ==
    /\ backend = "sql"
    /\ awaiting["get"] > 0
    /\ LET lat == ParseFloat(q.lat)
           lng == ParseFloat(q.lng)
           radiusMeters == RadiusMeters(q.radius)
       IN last' = IF ~lat.finite \/ ~lng.finite \/ radiusMeters <= 0
                  THEN Resp("get", 400, <<>>, q, posts, 0, now)
                  ELSE Resp("get", 200,
                            Nearby(FetchRecentPosts(posts, now, f),
                                   lat.val, lng.val, radiusMeters, now),
                            q, posts, 0, now)
    /\ awaiting' = [awaiting EXCEPT !["get"] = @ - 1]
    /\ UNCHANGED <<backend, posts, now, nextId, likesGiven, elsewhere>>

SqlPostReq(body) ==
    /\ backend = "sql"
    /\ awaiting["post"] > 0
    /\ LET latNum == ParseFloat(body.lat)
           lngNum == ParseFloat(body.lng)
           candidate == SqlCandidate(body)
           row == Post(Uuid(nextId), latNum.val, lngNum.val, candidate.text,
                       candidate.mood, now, 0)
       IN IF ~latNum.finite \/ ~lngNum.finite \/ ~candidate.accepted
          THEN /\ posts' = posts
               /\ nextId' = nextId
               /\ last' = Resp("post", 400, <<>>, body, posts, 0, now)
          ELSE /\ nextId <= MaxCreates
               /\ posts' = Append(posts, row)
               /\ nextId' = nextId + 1
               /\ last' = Resp("post", 201, <<NormalizeRow(ResultRow(row))>>,
                               body, posts, 0, now)
    /\ awaiting' = [awaiting EXCEPT !["post"] = @ - 1]
    /\ UNCHANGED <<backend, now, likesGiven, elsewhere>>

SqlLikeReq(id) ==
    /\ backend = "sql"
    /\ awaiting["like"] > 0
    /\ IF ~id.uuid
       \* the comparison of the UUID column with text that is no UUID fails
       \* in the database; the handler's catch answers 500
       THEN /\ posts' = posts
            /\ likesGiven' = likesGiven
            /\ last' = Resp("like", 500, <<>>, id, posts, 0, now)
       ELSE IF Matching(posts, id) = {}
       THEN /\ posts' = posts
            /\ likesGiven' = likesGiven
            /\ last' = Resp("like", 404, <<>>, id, posts, 0, now)
       ELSE LET updated == SqlIncrementLikes(posts, id)
                i == CHOOSE k \in Matching(updated, id) : TRUE
            IN /\ likesGiven[id.n] < MaxLikes
               /\ posts' = updated
               /\ likesGiven' = [likesGiven EXCEPT ![id.n] = @ + 1]
               /\ last' = Resp("like", 200,
                               <<[id |-> updated[i].id, likes |-> updated[i].likes]>>,
                               id, posts, 0, now)
    /\ awaiting' = [awaiting EXCEPT !["like"] = @ - 1]
    /\ UNCHANGED <<backend, now, nextId, elsewhere>>

\* setInterval(purgeExpiredPosts, 5 * 60 * 1000)
PurgeTimer ==
    /\ posts' = PurgeExpiredPosts(posts, now)
    /\ last' = PurgePass(posts, now)
    /\ UNCHANGED <<backend, now, nextId, awaiting, likesGiven, elsewhere>>

\* Date.now() advances, by a millisecond or by a day
TickMs ==
    /\ now % POST_TTL_MS < MaxSkew
    /\ now' = now + 1
    /\ UNCHANGED <<backend, posts, nextId, awaiting, likesGiven, last, elsewhere>>

TickDay ==
    /\ now \div POST_TTL_MS < MaxDays
    /\ now' = now + POST_TTL_MS
    /\ UNCHANGED <<backend, posts, nextId, awaiting, likesGiven, last, elsewhere>>

(***************************************************************************)
(* The requests of the server specification.                               *)
(***************************************************************************)
Lng == 139000
LatHere == 35000
LatAway == 35020
RadiusNear == 1000

Letter == Str(<<Run("a", 1)>>)
Blank == Str(<<Run(" ", 1)>>)
Emoji == Str(<<Run("E", 1)>>)

Bodies ==
    { Body(RawNum(LatHere), RawNum(Lng), Letter, Undefined),
      Body(RawNum(LatAway), RawNum(Lng), Blank, Emoji),
      Body(RawMissing, RawNum(Lng), Letter, Undefined),
      Body(RawNum(LatHere), RawNum(Lng), Blank, Undefined) }

Queries ==
    { Query(RawNum(LatHere), RawNum(Lng), RawNum(RadiusNear)),
      Query(RawNum(LatHere), RawNum(Lng), RawMissing),
      Query(RawNum(LatHere), RawNum(Lng), RawNum(0)),
      Query(RawNum(LatHere), RawNum(Lng), RawNum(-1)),
      Query(RawMissing, RawNum(Lng), RawNum(RadiusNear)) }

Ids == {Uuid(k) : k \in 1..MaxCreates} \cup {MalformedId}

Init ==
    /\ backend \in {"mem", "sql"}
    /\ posts = <<>>
    /\ now = 0
    /\ nextId = 1
    /\ awaiting = [k \in Kinds |-> 0]
    /\ likesGiven = [k \in 1..MaxCreates |-> 0]
    /\ last = NoResp
    /\ running = TRUE
    /\ windows = <<>>
    /\ buildNow = 0
    /\ cursor = 0
    /\ schedule = <<>>
    /\ earlier = <<>>
    /\ nextTrigger = <<>>
    /\ capability = FALSE
    /\ permission = "default"
    /\ page = <<>>
    /\ lastEvent = <<>>
    /\ swQueue = <<>>
    /\ handlers = <<>>
    /\ scheduledTags = {}
    /\ armed = {}
    /\ sent = <<>>

MemGet == \E q \in Queries : MemGetReq(q)
MemPost == \E b \in Bodies : MemPostReq(b)
MemLike == \E id \in Ids : MemLikeReq(id)
SqlArrive == \E k \in Kinds : SqlBegin(k)
SqlGet == \E q \in Queries : \E f \in Orders(Len(SqlSelectRecent(posts, now))) : SqlGetReq(q, f)
SqlPost == \E b \in Bodies : SqlPostReq(b)
SqlLike == \E id \in Ids : SqlLikeReq(id)

Next ==
    \/ MemGet
    \/ MemPost
    \/ MemLike
    \/ SqlArrive
    \/ SqlGet
    \/ SqlPost
    \/ SqlLike
    \/ PurgeTimer
    \/ TickMs
    \/ TickDay

Spec == Init /\ [][Next]_vars

(***************************************************************************)
(* The creation specification: one POST with any text and mood of up to    *)
(* MaxRuns runs, on either backend, followed by listings.                  *)
(***************************************************************************)
Chars == {"a", " ", "E"}
RunLens == {1, SqlMoodLimit - 1, SqlTextLimit - 1}
Runs == {Run(c, n) : c \in Chars, n \in RunLens}

StringsOf(k) ==
    {s \in [1..k -> Runs] : \A i \in 1..(k - 1) : s[i].c # s[i + 1].c}

Strings == UNION {StringsOf(k) : k \in 0..MaxRuns}

FewValues == {Undefined, Blank, Letter}

AllBodies ==
    {Body(RawNum(LatHere), RawNum(Lng), Str(t), m) : t \in Strings, m \in FewValues}
    \cup
    {Body(RawNum(LatHere), RawNum(Lng), t, Str(m)) : t \in FewValues, m \in Strings}

ListQuery == Query(RawNum(LatHere), RawNum(Lng), RawNum(RadiusNear))

CreateMemPost == \E b \in AllBodies : nextId = 1 /\ MemPostReq(b)
CreateMemGet == MemGetReq(ListQuery)
CreateSqlArrive == \E k \in {"get", "post"} : InFlight = 0 /\ SqlBegin(k)
CreateSqlPost == \E b \in AllBodies : nextId = 1 /\ SqlPostReq(b)
CreateSqlGet == \E f \in Orders(Len(SqlSelectRecent(posts, now))) : SqlGetReq(ListQuery, f)

NextCreate ==
    \/ CreateMemPost
    \/ CreateMemGet
    \/ CreateSqlArrive
    \/ CreateSqlPost
    \/ CreateSqlGet

SpecCreate == Init /\ [][NextCreate]_vars

(***************************************************************************)
(* Properties.                                                             *)
(***************************************************************************)
Listed == last.kind = "get" /\ last.status = 200
Created == last.kind = "post" /\ last.status = 201
Liked == last.kind = "like" /\ last.status = 200

\* the stored post with the given id
Stored(id) == posts[CHOOSE i \in Matching(posts, id) : TRUE]

\* C1 (as amended): a listing taken at time now never contains a post p with
\* now - p.timestamp > TTL; a post whose age is exactly TTL is still listed.
C1_ListingWithinTtl ==
    Listed => \A i \in 1..Len(last.json) :
                 last.at - last.json[i].timestamp <= POST_TTL_MS

\* C1 witness: a listing that holds a post whose age is exactly TTL
C1_ListsPostAgedTtl ==
    /\ Listed
    /\ \E i \in 1..Len(last.json) : last.at - last.json[i].timestamp = POST_TTL_MS

\* C1 (as claimed): a listing taken at time now never contains a post p with
\* now - p.timestamp >= TTL, a post whose age is exactly TTL included.
C1_ListingYoungerThanTtl ==
    Listed => \A i \in 1..Len(last.json) :
                 last.at - last.json[i].timestamp < POST_TTL_MS

\* C2: purgeExpired is idempotent: after a purge pass at time now, a second
\* pass with the same now removes 0 posts and leaves the store as the first
\* pass left it.
C2_PurgeIdempotent ==
    last.kind = "purge" =>
        /\ PurgeExpiredPosts(posts, last.at) = posts
        /\ PurgePass(posts, last.at).removed = 0

\* C2 witness: a purge pass that removed several posts at once
C2_PurgeRemovedPosts == last.kind = "purge" /\ last.removed > 1

\* C3: a like of an id that matches no stored post is answered 404 and
\* leaves every stored post, likes included, unchanged.
C3_UnknownIdNotFound ==
    (last.kind = "like" /\ Matching(last.before, last.req) = {}) =>
        /\ last.status = 404
        /\ posts = last.before

\* C4: every successful like raises the post's likes by exactly 1 and
\* returns the value after the increment; the likes of a stored post are
\* never negative and equal the number of successful likes it received.
C4_LikesCounted ==
    /\ \A i \in 1..Len(posts) :
          /\ posts[i].likes >= 0
          /\ posts[i].likes = likesGiven[posts[i].id.n]
    /\ Liked =>
          /\ Matching(last.before, last.req) # {}
          /\ \A i \in Matching(last.before, last.req) :
                last.json[1].likes = last.before[i].likes + 1
          /\ Stored(last.req).likes = last.json[1].likes
          /\ last.json[1].id = last.req

\* C4 witness: the second like of a post, answered while another request of
\* the SQL backend is between its purge and its own statement
C4_SecondLikeInterleaved ==
    /\ Liked
    /\ backend = "sql"
    /\ InFlight > 0
    /\ last.json[1].likes = 2
    /\ Len(posts) > 1

\* a field that is no string, or empty, or whitespace only
IsBlankField(v) ==
    v.type # "string" \/ \A i \in 1..Len(v.runs) : IsWhiteSpace(v.runs[i].c)

FiniteCoordinates(body) == ParseFloat(body.lat).finite /\ ParseFloat(body.lng).finite

\* C5: a POST with finite lat and lng is answered 400 and stores nothing
\* exactly when text and mood are both blank; otherwise it is answered 201
\* and the post is stored.
C5_RejectedIffBlank ==
    (last.kind = "post" /\ FiniteCoordinates(last.req)) =>
        IF IsBlankField(last.req.text) /\ IsBlankField(last.req.mood)
        THEN last.status = 400 /\ posts = last.before
        ELSE /\ last.status = 201
             /\ Len(posts) = Len(last.before) + 1
             /\ Matching(posts, last.json[1].id) # {}

\* C5 witness: a post with a mood and a blank text is created
C5_MoodOnlyCreated ==
    /\ Created
    /\ IsBlankField(last.req.text)
    /\ last.req.text.type = "string"
    /\ ~IsBlankField(last.req.mood)

\* the first k code points of the trimmed input ("" for a non-string)
TrimmedPrefix(v, k) ==
    IF v.type = "string" THEN Str(ArrayFromSlice(Trim(v.runs), k)) ELSE Str(<<>>)

\* C6: in every backend the stored text of a created post is the first 500
\* code points of the trimmed input; no code point is split.
C6_StoredTextIsCodePointPrefix ==
    Created => Stored(last.json[1].id).text = TrimmedPrefix(last.req.text, SqlTextLimit)

\* C7: the in-memory backend and the SQL backend accept or reject every
\* candidate alike and store the same text and the same mood.
C7_SameSanitization ==
    (last.kind = "post" /\ FiniteCoordinates(last.req)) =>
        /\ MemCandidate(last.req).accepted = SqlCandidate(last.req).accepted
        /\ MemCandidate(last.req).accepted =>
              /\ MemCandidate(last.req).text = SqlCandidate(last.req).text
              /\ MemCandidate(last.req).mood = SqlCandidate(last.req).mood

\* C8: the post returned by create equals the stored record field by field.
C8_ReturnedEqualsStored ==
    Created => last.json[1] = Stored(last.json[1].id)

\* C9: a stored post that is returned through the listing path has the id,
\* text, mood, timestamp and likes that are stored.
C9_ListingRoundTrip ==
    Listed => \A i \in 1..Len(last.json) :
        LET p == last.json[i]
        IN /\ Matching(posts, p.id) # {}
           /\ Stored(p.id).text = p.text
           /\ Stored(p.id).mood = p.mood
           /\ Stored(p.id).timestamp = p.timestamp
           /\ Stored(p.id).likes = p.likes

ValidQuery(q) ==
    /\ ParseFloat(q.lat).finite
    /\ ParseFloat(q.lng).finite
    /\ ParseFloat(q.radius).finite
    /\ ParseFloat(q.radius).val > 0

\* the stored posts a query at time t is to return
InRange(store, q, t) ==
    {i \in 1..Len(store) :
        /\ store[i].timestamp >= t - POST_TTL_MS
        /\ DistanceInMeters(q.lat.val, q.lng.val, store[i].lat, store[i].lng)
              <= q.radius.val}

\* C10: a GET with valid lat, lng and radius returns exactly the active
\* posts within the radius, each once, ordered by non-increasing timestamp,
\* and leaves the stored posts as they were.
C10_NearbyNewestFirst ==
    (Listed /\ ValidQuery(last.req)) =>
        /\ {last.json[i].id : i \in 1..Len(last.json)}
              = {last.before[i].id : i \in InRange(last.before, last.req, last.at)}
        /\ Len(last.json) = Cardinality(InRange(last.before, last.req, last.at))
        /\ \A i, j \in 1..Len(last.json) :
              i < j => last.json[i].timestamp >= last.json[j].timestamp
        /\ posts = last.before

\* C10 witness: every stored post is active, and the listing holds the posts
\* in range and leaves out a post that is out of range
C10_ListsOnlyNearby ==
    /\ Listed
    /\ ValidQuery(last.req)
    /\ Len(last.json) >= 1
    /\ Len(last.before) > Len(last.json)
    /\ \A i \in 1..Len(last.before) :
          last.before[i].timestamp >= last.at - POST_TTL_MS

(***************************************************************************)
(* Validation of the listing query and of rejected requests.               *)
(***************************************************************************)
\* C11: a GET is answered 400 whenever lat or lng is not finite or the
\* supplied radius is a number <= 0, zero included; only a missing or
\* non-numeric radius falls back to the default.
C11_BadQueryRejected ==
    last.kind = "get" =>
        LET lat == ParseFloat(last.req.lat)
            lng == ParseFloat(last.req.lng)
            radius == ParseFloat(last.req.radius)
        IN (~lat.finite \/ ~lng.finite \/ (radius.finite /\ radius.val <= 0))
               => last.status = 400

\* a step in which a handler answers a GET or a POST with 400
Rejects ==
    /\ now' = now
    /\ last'.kind \in {"get", "post"}
    /\ last'.status = 400
    /\ IF backend = "mem" THEN TRUE ELSE InFlight' < InFlight

Expired(p, t) == p.timestamp < t - POST_TTL_MS

\* C12 (as claimed): a request answered with a validation error leaves the
\* stored posts exactly as they were.
C12_RejectedLeavesStore == [][Rejects => posts' = posts]_vars

\* C12 (amended): a request answered with a validation error adds no post,
\* changes no post and removes none but expired posts.
C12_RejectedOnlyPurges ==
    [][Rejects =>
          /\ \A i \in 1..Len(posts') : \E j \in 1..Len(posts) : posts'[i] = posts[j]
          /\ \A j \in 1..Len(posts) :
                 ~Expired(posts[j], now) => \E i \in 1..Len(posts') : posts'[i] = posts[j]
          /\ Len(posts') <= Len(posts)]_vars

\* C12 witness: a rejected request whose purge pass removed an expired post
\* and kept a live one
C12_RejectedAfterPurge ==
    /\ last.kind \in {"get", "post"}
    /\ last.status = 400
    /\ last.removed > 0
    /\ Len(posts) > 0

(***************************************************************************)
(* Failure of the periodic purge.  The DELETE of server.js can be rejected *)
(* by the database (the statement is atomic: a rejected DELETE removes     *)
(* nothing); the purge of part_000 works on an array and cannot fail.  A   *)
(* rejected promise without a handler ends a Node process.                 *)
(***************************************************************************)
\* a timer callback without .catch(): the rejection is unhandled
RejectionUnhandled(up) == FALSE

\* purgeExpiredPosts().catch((error) => console.warn(...))
RejectionCaught(up) == up

PurgeTimerFails ==
    /\ backend = "sql"
    /\ running
    /\ running' = RejectionCaught(running)
    /\ last' = Resp("purge-failed", 0, <<>>, <<>>, posts, 0, now)
    /\ UNCHANGED <<backend, posts, now, nextId, awaiting, likesGiven, buildVars,
                   pageVars, workerVars>>

\* a handler of server.js whose await purgeExpiredPosts() is rejected: its
\* catch answers 500
SqlPurgeFails(kind, req) ==
    /\ backend = "sql"
    /\ running
    /\ last' = Resp(kind, 500, <<>>, req, posts, 0, now)
    /\ UNCHANGED <<backend, posts, now, nextId, awaiting, likesGiven, elsewhere>>

RequestPurgeFails ==
    \/ \E q \in Queries : SqlPurgeFails("get", q)
    \/ \E b \in Bodies : SqlPurgeFails("post", b)
    \/ \E id \in Ids : SqlPurgeFails("like", id)

Serve == running /\ Next

NextFail ==
    \/ Serve
    \/ PurgeTimerFails
    \/ RequestPurgeFails

SpecFail == Init /\ [][NextFail]_vars

\* C19: a failure of the periodic purge is caught: the process lives, the
\* store is as it was, requests are still served and the timer can run the
\* purge again.
C19_PurgeFailureSurvived ==
    last.kind = "purge-failed" =>
        /\ running
        /\ posts = last.before
        /\ ENABLED (running /\ PurgeTimer)
        /\ ENABLED (running /\ (SqlArrive \/ SqlGet \/ SqlPost \/ SqlLike))

\* C19 witness: the periodic purge failed while an expired post was stored
C19_FailedWithExpiredPost ==
    /\ last.kind = "purge-failed"
    /\ \E i \in 1..Len(posts) : Expired(posts[i], now)

(***************************************************************************)
(* src/public/main.js: buildReminderSchedule.                              *)
(*                                                                         *)
(* A Date is its milliseconds since a local midnight; no daylight-saving   *)
(* shift falls into the lookahead, so setHours and setDate are sums.  A    *)
(* trigger time is effectiveStart + Math.random() * diff, which is no      *)
(* whole number of milliseconds: it is kept as its floor (ms) and whether  *)
(* it is whole.  Math.random() is a fraction num/den in [0, 1).  The title *)
(* and the body of a reminder are text that nothing below reads; they are  *)
(* not part of the reminder record.                                        *)
(***************************************************************************)
MaxBuilds == 2
MaxElapsed == 1

MinuteMs == 60 * 1000
HourMs == 60 * MinuteMs
DayMs == 24 * HourMs

REMINDER_LOOKAHEAD_DAYS == 3

WindowSlot(startHour, endHour) == [startHour |-> startHour, endHour |-> endHour]

NOTIFICATION_WINDOWS == <<WindowSlot(7, 10), WindowSlot(12, 14), WindowSlot(18, 21)>>

Max(a, b) == IF a >= b THEN a ELSE b

\* dayStart.setHours(0, 0, 0, 0); dayStart.setDate(dayStart.getDate() + dayOffset)
DayStart(nowMs, dayOffset) == (nowMs \div DayMs) * DayMs + dayOffset * DayMs

\* date.setHours(hour, windowSlot.startMinute || 0, 0, 0): no window has minutes
SetHours(dayStart, hour) == dayStart + hour * HourMs

Fraction(num, den) == [num |-> num, den |-> den]

\* base + random * diff
Plus(base, random, diff) ==
    [ms |-> base + (random.num * diff) \div random.den,
     whole |-> (random.num * diff) % random.den = 0]

\* time <= ms, for a whole number ms
NotAfter(time, ms) == time.ms < ms \/ (time.ms = ms /\ time.whole)

\* a tag that names the window and leaves out the day
TagOfWindow(dayOffset, windowSlot, index) ==
    <<"mapto-reminder", 0, windowSlot.startHour, index>>

\* `mapto-reminder-${dayOffset}-${windowSlot.startHour}-${index}`
ReminderTag(dayOffset, windowSlot, index) ==
    <<"mapto-reminder", dayOffset, windowSlot.startHour, index>>

\* a test that lets through the trigger that is due at this very instant
DiscardPast(triggerTime, dateNow) == triggerTime.ms < dateNow

\* a test that also drops every trigger of the coming 24 hours
DiscardWithinDay(triggerTime, dateNow) == NotAfter(triggerTime, dateNow + DayMs)

\* if (triggerTime <= Date.now()) return
Discard(triggerTime, dateNow) == NotAfter(triggerTime, dateNow)

\* the callback of NOTIFICATION_WINDOWS.forEach: the reminders it pushes
WindowReminder(nowMs, dateNow, dayOffset, windowSlot, index, random) ==
    LET dayStart == DayStart(nowMs, dayOffset)
        windowStart == SetHours(dayStart, windowSlot.startHour)
        windowEndSet == SetHours(dayStart, windowSlot.endHour)
        windowEnd == IF windowEndSet <= windowStart
                     THEN windowStart + HourMs ELSE windowEndSet
        effectiveStart == IF dayOffset = 0 /\ nowMs > windowStart
                          THEN nowMs ELSE windowStart
        diff == Max(1, windowEnd - effectiveStart)
        triggerTime == Plus(effectiveStart, random, diff)
    IN IF dayOffset = 0 /\ nowMs >= windowEndSet THEN <<>>
       ELSE IF effectiveStart >= windowEnd THEN <<>>
       ELSE IF Discard(triggerTime, dateNow) THEN <<>>
       ELSE <<[time |-> triggerTime,
               tag |-> ReminderTag(dayOffset, windowSlot, index)]>>

\* computeNextTrigger(windowSlot, baseDate): the span it settles on and the
\* instant it draws in it
ComputeNextTrigger(windowSlot, baseDate, random) ==
    LET start == SetHours(DayStart(baseDate, 0), windowSlot.startHour)
        end == SetHours(DayStart(baseDate, 0), windowSlot.endHour)
        effectiveStart == IF baseDate >= end THEN start + DayMs
                          ELSE IF baseDate > start /\ baseDate < end THEN baseDate
                          ELSE start
        shiftedEnd == IF baseDate >= end THEN end + DayMs ELSE end
        effectiveEnd == IF effectiveStart >= shiftedEnd
                        THEN effectiveStart + HourMs ELSE shiftedEnd
        diff == Max(1, effectiveEnd - effectiveStart)
    IN Plus(effectiveStart, random, diff)

Tags(reminders) == {reminders[k].tag : k \in 1..Len(reminders)}

\* the number of calls of the forEach callback in one run
Returned == REMINDER_LOOKAHEAD_DAYS * Len(windows)

\* const schedule = []; const now = new Date()
BuildStart ==
    /\ cursor = Returned
    /\ Len(earlier) < MaxBuilds
    /\ buildNow' = now
    /\ schedule' = <<>>
    /\ cursor' = 0
    /\ UNCHANGED <<serverVars, now, processVars, windows, earlier, nextTrigger, pageVars,
                   workerVars>>

\* one call of the forEach callback; after the last one the schedule is
\* returned
BuildStep(random) ==
    /\ cursor < Returned
    /\ LET dayOffset == cursor \div Len(windows)
           index == cursor % Len(windows)
       IN schedule' = schedule \o WindowReminder(buildNow, now, dayOffset,
                                                 windows[index + 1], index, random)
    /\ cursor' = cursor + 1
    /\ earlier' = IF cursor' = Returned
                  THEN Append(earlier, [now |-> buildNow, tags |-> Tags(schedule')])
                  ELSE earlier
    /\ UNCHANGED <<serverVars, now, processVars, windows, buildNow, nextTrigger, pageVars,
                   workerVars>>

\* the instants at which the page builds a schedule: before the first
\* window, in the millisecond before its start, at its start, inside it, in
\* its last millisecond, at its end and after the last window
Nows ==
    {6 * HourMs, 7 * HourMs - 1, 7 * HourMs, 9 * HourMs, 10 * HourMs - 1,
     10 * HourMs, 22 * HourMs}

\* Math.random()
Randoms == {Fraction(0, 1), Fraction(1, 2)}

\* Date.now() moves on while the loop runs
ClockTick ==
    /\ \E start \in Nows : now - start \in 0..(MaxElapsed - 1)
    /\ now' = now + 1
    /\ UNCHANGED <<serverVars, processVars, buildVars, pageVars, workerVars>>

InitWindows(slots) ==
    /\ backend = "sql"
    /\ posts = <<>>
    /\ nextId = 1
    /\ awaiting = [k \in Kinds |-> 0]
    /\ likesGiven = [k \in 1..MaxCreates |-> 0]
    /\ last = NoResp
    /\ running = TRUE
    /\ now \in Nows
    /\ windows = slots
    /\ buildNow = 0
    /\ cursor = Returned
    /\ schedule = <<>>
    /\ earlier = <<>>
    /\ nextTrigger = <<>>
    /\ capability = FALSE
    /\ permission = "default"
    /\ page = <<>>
    /\ lastEvent = <<>>
    /\ swQueue = <<>>
    /\ handlers = <<>>
    /\ scheduledTags = {}
    /\ armed = {}
    /\ sent = <<>>

InitBuild == InitWindows(NOTIFICATION_WINDOWS)

Build == \E random \in Randoms : BuildStep(random)

NextBuild ==
    \/ BuildStart
    \/ Build
    \/ ClockTick

SpecBuild == InitBuild /\ [][NextBuild]_vars

\* the window a reminder of the run under way was drawn for
WindowOf(reminder) ==
    LET dayOffset == reminder.tag[2]
        slot == windows[reminder.tag[4] + 1]
        dayStart == DayStart(buildNow, dayOffset)
        start == SetHours(dayStart, slot.startHour)
    IN [dayOffset |-> dayOffset,
        start |-> start,
        end |-> SetHours(dayStart, slot.endHour),
        effectiveStart |-> IF dayOffset = 0 /\ buildNow > start THEN buildNow ELSE start]

\* C13: every reminder of buildReminderSchedule(now) has a trigger time t
\* with effectiveStart <= t < windowEnd and t > now, and a day-0 window with
\* now >= end has no reminder.
C13_ReminderInsideWindow ==
    \A k \in 1..Len(schedule) :
        LET t == schedule[k].time
            w == WindowOf(schedule[k])
        IN /\ w.effectiveStart <= t.ms
           /\ t.ms < w.end
           /\ ~NotAfter(t, buildNow)
           /\ ~(w.dayOffset = 0 /\ buildNow >= w.end)

\* C13 witness: at 09:00 the returned schedule holds a reminder for today's
\* window 07:00-10:00, which is under way, and one for today's next window
C13_UnderwayWindowScheduled ==
    /\ cursor = Returned
    /\ buildNow = 9 * HourMs
    /\ ReminderTag(0, windows[1], 0) \in Tags(schedule)
    /\ ReminderTag(0, windows[2], 1) \in Tags(schedule)

\* the tags of today's windows that have started by the time ms
StartedToday(nowMs, ms) ==
    {ReminderTag(0, windows[k], k - 1) :
        k \in {j \in 1..Len(windows) :
                 SetHours(DayStart(nowMs, 0), windows[j].startHour) <= ms}}

\* C20 (as claimed): two runs of buildReminderSchedule started from the same
\* now return the same set of tags, whatever the random draws.
C20_SameTags ==
    \A i, j \in 1..Len(earlier) :
        earlier[i].now = earlier[j].now => earlier[i].tags = earlier[j].tags

\* C20 (amended): two runs started from the same now return the same tags
\* but for today's windows that have started by the time the draw is
\* compared with Date.now(); such a tag is in a run only if its draw is
\* later than Date.now().
C20_SameTagsButStarted ==
    \A i, j \in 1..Len(earlier) :
        earlier[i].now = earlier[j].now =>
            (earlier[i].tags \ earlier[j].tags) \subseteq StartedToday(earlier[i].now, now)

\* C20 witness: two runs started at 09:00, one with and one without a
\* reminder for the window 07:00-10:00 that is under way
C20_TwoRunsFromSameNow ==
    /\ Len(earlier) = 2
    /\ earlier[1].now = 9 * HourMs
    /\ earlier[2].now = 9 * HourMs
    /\ ReminderTag(0, windows[1], 0) \in earlier[1].tags \ earlier[2].tags
    /\ Cardinality(earlier[2].tags) > 1

(***************************************************************************)
(* src/public/main.js and src/public/service-worker.js: the reminders.     *)
(*                                                                         *)
(* page is the state of the loaded page (its globals, the timers of its    *)
(* document, the stored preference) as a record; the functions of main.js  *)
(* are operators from page records to page records.  outbox holds the      *)
(* messages a task posts to the service worker, showed whether it showed a *)
(* notification, clearedBelow the timer id that was next at the latest     *)
(* clearScheduledNotifications().  A task of the page runs to completion:  *)
(* its awaits resume in microtasks (the worker is registered by then), so  *)
(* nothing runs in between.  The handlers of the service worker are        *)
(* suspended at await getNotifications() and await showNotification(); the *)
(* browser answers each in a step of its own, in any order.  A fallback    *)
(* timer is its id, its window and the instant it is due.  draws holds the *)
(* values Math.random() returns in the task under way, one per window;     *)
(* shown counts the notifications the task showed; firedOn is, for each    *)
(* window, the day of its latest firing since reminders were switched on   *)
(* (-1 if it has not fired), and twice whether a window fired on the       *)
(* day of its latest firing again.                                         *)
(***************************************************************************)
MaxTimerIds == 7
MaxSent == 5
MaxPageDays == 2

\* the calendar day of an instant
DayOf(ms) == ms \div DayMs
\* no window has fired: the day before the first
NeverFired == [index \in 0..(Len(NOTIFICATION_WINDOWS) - 1) |-> -1]

Range(s) == {s[k] : k \in 1..Len(s)}

CancelMessage == [type |-> "cancelReminders", reminders |-> <<>>]
ScheduleMessage(reminders) == [type |-> "scheduleReminders", reminders |-> reminders]

\* a clearScheduledNotifications that forgets the ids and clears no timeout
LeaveTimeouts(live, ids) == live

\* notificationTimers.forEach((timerId) => clearTimeout(timerId))
ClearTimeouts(live, ids) == {t \in live : t.id \notin Range(ids)}

ClearScheduledNotifications(p) ==
    [p EXCEPT !.timers = ClearTimeouts(p.timers, p.notificationTimers),
              !.notificationTimers = <<>>,
              !.clearedBelow = p.nextTimerId]

\* the page is controlled by the active worker: postMessage
SendMessageToServiceWorker(p, message) == [p EXCEPT !.outbox = Append(@, message)]

PersistNotificationPreference(p, enabled) == [p EXCEPT !.stored = enabled]

DisableNotificationReminders(p) ==
    LET cleared == ClearScheduledNotifications(p)
        told == IF cleared.supportsTriggerScheduling
                THEN SendMessageToServiceWorker(cleared, CancelMessage)
                ELSE cleared
    IN PersistNotificationPreference([told EXCEPT !.notificationsEnabled = FALSE], FALSE)

\* a scheduleNotificationForWindow without its first line
ArmsAlways(enabled) == TRUE

\* if (!notificationsEnabled) return
MayArm(enabled) == enabled

\* setTimeout(..., delay); notificationTimers.push(timerId)
ScheduleNotificationForWindow(p, index, baseDate) ==
    IF ~MayArm(p.notificationsEnabled) THEN p
    ELSE LET nextTriggerTime == ComputeNextTrigger(NOTIFICATION_WINDOWS[index + 1],
                                                   baseDate, p.draws[index + 1])
             delay == Max(0, nextTriggerTime.ms - now)
         IN [p EXCEPT !.timers = @ \cup {[id |-> p.nextTimerId, window |-> index,
                                          due |-> now + delay]},
                      !.notificationTimers = Append(@, p.nextTimerId),
                      !.nextTimerId = @ + 1]

RECURSIVE ForEachWindow(_, _)
ForEachWindow(p, index) ==
    IF index >= Len(NOTIFICATION_WINDOWS) THEN p
    ELSE ForEachWindow(ScheduleNotificationForWindow(p, index, now), index + 1)

ScheduleFallbackNotifications(p) == ForEachWindow(ClearScheduledNotifications(p), 0)

\* swRegistration is set and its worker is active; reminders is what
\* buildReminderSchedule() returns
ScheduleNotificationsWithTriggers(p, reminders) ==
    LET told == SendMessageToServiceWorker(ClearScheduledNotifications(p), CancelMessage)
    IN IF Len(reminders) > 0
       THEN SendMessageToServiceWorker(told, ScheduleMessage(reminders))
       ELSE told

ScheduleDailyNotifications(p, capable, granted, reminders) ==
    LET probed == IF ~p.supportsTriggerScheduling
                  THEN [p EXCEPT !.supportsTriggerScheduling = capable]
                  ELSE p
    IN IF ~granted THEN DisableNotificationReminders(probed)
       ELSE IF probed.supportsTriggerScheduling /\ probed.swRegistration
       THEN ScheduleNotificationsWithTriggers(probed, reminders)
       ELSE ScheduleFallbackNotifications(probed)

\* notificationsEnabled = true
SwitchedOn(p) ==
    [p EXCEPT !.notificationsEnabled = TRUE, !.firedOn = NeverFired, !.twice = FALSE]

\* after the permission prompt
EnableNotificationReminders(p, capable, granted, reminders) ==
    IF ~granted THEN p
    ELSE LET scheduled == ScheduleDailyNotifications(SwitchedOn(p),
                              capable, granted, reminders)
         IN PersistNotificationPreference(scheduled, scheduled.notificationsEnabled)

\* throws: new Notification(...) throws
ShowReminderNotification(p, granted, throws) ==
    IF ~granted \/ throws THEN DisableNotificationReminders(p)
    ELSE [p EXCEPT !.showed = TRUE, !.shown = @ + 1]

\* a timer that fires over and over, as setInterval would
StaysArmed(live, timer) == live

\* a timeout fires once
Fired(live, timer) == live \ {timer}

\* a callback that arms the next timer from the instant it runs at
ThisInstant(ms) == ms

\* tomorrow.setDate(tomorrow.getDate() + 1); tomorrow.setHours(0, 0, 0, 0)
Tomorrow(ms) == DayStart(ms, 1)

\* the callback of setTimeout in scheduleNotificationForWindow
TimerCallback(p, timer, granted, throws) ==
    LET entered == [p EXCEPT !.timers = Fired(@, timer)]
        noted == [entered EXCEPT !.firedOn[timer.window] = DayOf(now),
                                 !.twice = @ \/ entered.firedOn[timer.window] = DayOf(now)]
        tomorrow == Tomorrow(now)
    IN IF ~entered.notificationsEnabled THEN entered
       ELSE ScheduleNotificationForWindow(
                ShowReminderNotification(noted, granted, throws), timer.window, tomorrow)

RestoreNotificationPreference(p, capable, granted, reminders) ==
    IF p.stored /\ granted
    THEN ScheduleDailyNotifications(SwitchedOn(p), capable, granted, reminders)
    ELSE IF p.stored THEN PersistNotificationPreference(p, FALSE)
    ELSE p

\* the page as its script starts: registerServiceWorker() is under way
LoadedPage(stored) ==
    [notificationsEnabled |-> FALSE, notificationTimers |-> <<>>,
     swRegistration |-> FALSE, supportsTriggerScheduling |-> FALSE,
     registering |-> TRUE, timers |-> {}, nextTimerId |-> 1, stored |-> stored,
     outbox |-> <<>>, showed |-> FALSE, clearedBelow |-> 1,
     draws |-> <<>>, shown |-> 0, firedOn |-> NeverFired, twice |-> FALSE]

\* what a task of the page did: whether disableNotificationReminders ran,
\* whether a notification was shown, whether a timer fired without
\* permission or with a throwing constructor, and the timers that were live
Event(kind, before, after, failed) ==
    [kind |-> kind,
     disabled |-> before.notificationsEnabled /\ ~after.notificationsEnabled,
     showed |-> after.showed,
     failed |-> failed,
     live |-> Cardinality(before.timers),
     enabled |-> before.notificationsEnabled,
     shown |-> after.shown,
     gone |-> {t.window : t \in before.timers \ after.timers},
     new |-> after.timers \ before.timers,
     day |-> DayOf(now)]

\* the end of a task: its messages are on their way to the worker
Commit(p, event) ==
    /\ p.nextTimerId <= MaxTimerIds + 1
    /\ Len(sent) + Len(p.outbox) <= MaxSent
    /\ page' = [p EXCEPT !.outbox = <<>>, !.showed = FALSE, !.shown = 0, !.draws = <<>>]
    /\ swQueue' = swQueue \o p.outbox
    /\ sent' = sent \o p.outbox
    /\ lastEvent' = event

\* two reminders of a schedule: one for a window of today, one for tomorrow
TodayEvening ==
    [time |-> [ms |-> 19 * HourMs, whole |-> TRUE],
     tag |-> ReminderTag(0, NOTIFICATION_WINDOWS[3], 2)]
TomorrowMorning ==
    [time |-> [ms |-> DayMs + 8 * HourMs, whole |-> TRUE],
     tag |-> ReminderTag(1, NOTIFICATION_WINDOWS[1], 0)]

\* buildReminderSchedule(): while today's window has not ended, and after
Batches == {<<TodayEvening, TomorrowMorning>>, <<TomorrowMorning>>}

\* Math.random() in a timer callback: a draw for each window, all alike
Draws == {[index \in 1..Len(NOTIFICATION_WINDOWS) |-> random] : random \in Randoms}

\* Math.random() when the timers of all windows are armed: the start of the
\* first window and the middle of the others
FirstDraws == {<<Fraction(0, 1), Fraction(1, 2), Fraction(1, 2)>>}

\* buildReminderSchedule() is called on the trigger path only, that is when
\* supportsTriggerScheduling && swRegistration
BatchesFor(p) == IF capability /\ p.swRegistration THEN Batches ELSE {<<>>}

\* initialize(): a load or reload of the page
Load ==
    /\ \E draws \in FirstDraws :
          LET started == [LoadedPage(page.stored) EXCEPT !.draws = draws]
          IN \E reminders \in BatchesFor(started) : Commit(RestoreNotificationPreference(started, capability,
                                                  permission = "granted", reminders),
                    Event("load", started, started, FALSE))
    /\ UNCHANGED <<serverVars, now, processVars, buildVars, capability, permission,
                   handlers, scheduledTags, armed>>

\* registerServiceWorker() after its awaits
Registered ==
    /\ page.registering
    /\ page' = [page EXCEPT !.registering = FALSE, !.swRegistration = TRUE,
                            !.supportsTriggerScheduling = capability]
    /\ UNCHANGED <<serverVars, now, processVars, buildVars, capability, permission,
                   lastEvent, workerVars>>

\* registerServiceWorker(): register() rejected
RegistrationFails ==
    /\ page.registering
    /\ page' = [page EXCEPT !.registering = FALSE]
    /\ UNCHANGED <<serverVars, now, processVars, buildVars, capability, permission,
                   lastEvent, workerVars>>

\* handleNotificationButton() while reminders are off; answer is what the
\* user answers if the permission is asked for
ClickEnable ==
    /\ ~page.notificationsEnabled
    /\ \E answer \in {"granted", "denied"} : \E reminders \in BatchesFor(page) :
       \E draws \in FirstDraws :
          /\ permission' = IF permission = "default" THEN answer ELSE permission
          /\ LET after == EnableNotificationReminders([page EXCEPT !.draws = draws],
                                                      capability,
                                                      permission' = "granted", reminders)
             IN Commit(after, Event("enable", page, after, FALSE))
    /\ UNCHANGED <<serverVars, now, processVars, buildVars, capability,
                   handlers, scheduledTags, armed>>

\* handleNotificationButton() while reminders are on
ClickDisable ==
    /\ page.notificationsEnabled
    /\ LET after == DisableNotificationReminders(page)
       IN Commit(after, Event("disable", page, after, FALSE))
    /\ UNCHANGED <<serverVars, now, processVars, buildVars, capability, permission,
                   handlers, scheduledTags, armed>>

\* a fallback timer is due, or overdue
TimerFires ==
    /\ \E timer \in page.timers : \E throws \in BOOLEAN : \E draws \in Draws :
          LET after == TimerCallback([page EXCEPT !.draws = draws], timer,
                                     permission = "granted", throws)
          IN /\ timer.due <= now
             /\ Commit(after, Event("timer", page, after,
                                    page.notificationsEnabled
                                        /\ (permission # "granted" \/ throws)))
    /\ UNCHANGED <<serverVars, now, processVars, buildVars, capability, permission,
                   handlers, scheduledTags, armed>>

\* the instants the clock of the page is looked at: when a timer is due
\* and at midnight
Instants == {t.due : t \in page.timers} \cup {DayStart(now, 1)}

\* time passes; a timer that is due need not fire at once
TimePasses ==
    /\ \E later \in Instants :
          /\ later > now
          /\ later < MaxPageDays * DayMs
          /\ now' = later
    /\ UNCHANGED <<serverVars, processVars, buildVars, pageVars, workerVars>>

\* the user grants or withdraws the permission in the browser's settings
PermissionChanges ==
    /\ permission' \in {"granted", "denied"} \ {permission}
    /\ UNCHANGED <<serverVars, now, processVars, buildVars, capability, page,
                   lastEvent, workerVars>>

(***************************************************************************)
(* service-worker.js.  A notification is its tag and its data.tag; a       *)
(* handler is the message type, the await it is suspended at, the          *)
(* notifications getNotifications() answered and the reminders still to    *)
(* arm.                                                                    *)
(***************************************************************************)
NoTag == <<>>
DefaultTag == <<"mapto-reminder">>

\* reminder.tag || "mapto-reminder"
TagOrDefault(reminder) == IF reminder.tag = NoTag THEN DefaultTag ELSE reminder.tag

\* typeof reminder.time === "number"
HasTime(reminder) == "time" \in DOMAIN reminder

Handler(type, pc, notifications, reminders) ==
    [type |-> type, pc |-> pc, notifications |-> notifications, reminders |-> reminders]

Without(s, i) == [k \in 1..(Len(s) - 1) |-> IF k < i THEN s[k] ELSE s[k + 1]]

\* notification?.data?.tag || notification.tag
TagOf(notification) ==
    IF notification.data # NoTag THEN notification.data ELSE notification.tag

\* the notifications the forEach of cancelReminders closes
Closed(notifications, tags) ==
    {n \in notifications : TagOf(n) = NoTag \/ tags = {} \/ TagOf(n) \in tags}

\* the message listener up to the first await: getNotifications() is called
Dispatch ==
    /\ swQueue # <<>>
    /\ LET message == Head(swQueue)
           reminders == SelectSeq(message.reminders, HasTime)
       IN handlers' =
              IF ~capability
                 \/ (message.type = "scheduleReminders" /\ Len(message.reminders) = 0)
              THEN handlers
              ELSE Append(handlers, Handler(message.type, "getNotifications", {}, reminders))
    /\ swQueue' = Tail(swQueue)
    /\ UNCHANGED <<serverVars, now, processVars, buildVars, pageVars,
                   scheduledTags, armed, sent>>

\* the browser answers getNotifications({ includeTriggered: true })
GetNotifications(i) ==
    /\ handlers[i].pc = "getNotifications"
    /\ handlers' = [handlers EXCEPT ![i].pc = "forEach", ![i].notifications = armed]
    /\ UNCHANGED <<serverVars, now, processVars, buildVars, pageVars,
                   swQueue, scheduledTags, armed, sent>>

\* cancelReminders() resumes: closes, clears scheduledTags and returns; the
\* loop of scheduleReminders calls showNotification for its first reminder
ForEachClose(i) ==
    /\ handlers[i].pc = "forEach"
    /\ armed' = armed \ Closed(handlers[i].notifications, scheduledTags)
    /\ scheduledTags' = {}
    /\ handlers' = IF handlers[i].type = "cancelReminders" \/ handlers[i].reminders = <<>>
                   THEN Without(handlers, i)
                   ELSE [handlers EXCEPT ![i].pc = "showNotification"]
    /\ UNCHANGED <<serverVars, now, processVars, buildVars, pageVars, swQueue, sent>>

\* the browser arms the notification; one with the same tag is replaced
ShowNotification(i) ==
    /\ handlers[i].pc = "showNotification"
    /\ LET tag == TagOrDefault(Head(handlers[i].reminders))
       IN armed' = {n \in armed : n.tag # tag} \cup {[tag |-> tag, data |-> tag]}
    /\ handlers' = [handlers EXCEPT ![i].pc = "add"]
    /\ UNCHANGED <<serverVars, now, processVars, buildVars, pageVars,
                   swQueue, scheduledTags, sent>>

\* scheduleReminders resumes: scheduledTags.add, then the next reminder
AddTag(i) ==
    /\ handlers[i].pc = "add"
    /\ LET reminder == Head(handlers[i].reminders)
       IN scheduledTags' = IF reminder.tag # NoTag
                           THEN scheduledTags \cup {reminder.tag}
                           ELSE scheduledTags
    /\ handlers' = IF Len(handlers[i].reminders) = 1
                   THEN Without(handlers, i)
                   ELSE [handlers EXCEPT ![i].pc = "showNotification",
                                         ![i].reminders = Tail(@)]
    /\ UNCHANGED <<serverVars, now, processVars, buildVars, pageVars, swQueue, armed, sent>>

\* the idle worker is stopped and started again: const scheduledTags = new Set()
WorkerRestarts ==
    /\ swQueue = <<>>
    /\ handlers = <<>>
    /\ scheduledTags # {}
    /\ scheduledTags' = {}
    /\ UNCHANGED <<serverVars, now, processVars, buildVars, pageVars,
                   swQueue, handlers, armed, sent>>

InitPage ==
    /\ backend = "sql"
    /\ posts = <<>>
    /\ now = 0
    /\ nextId = 1
    /\ awaiting = [k \in Kinds |-> 0]
    /\ likesGiven = [k \in 1..MaxCreates |-> 0]
    /\ last = NoResp
    /\ running = TRUE
    /\ windows = NOTIFICATION_WINDOWS
    /\ buildNow = 0
    /\ cursor = Returned
    /\ schedule = <<>>
    /\ earlier = <<>>
    /\ nextTrigger = <<>>
    /\ capability \in BOOLEAN
    /\ permission = "default"
    /\ page = LoadedPage(FALSE)
    /\ lastEvent = Event("load", LoadedPage(FALSE), LoadedPage(FALSE), FALSE)
    /\ swQueue = <<>>
    /\ handlers = <<>>
    /\ scheduledTags = {}
    /\ armed = {}
    /\ sent = <<>>

BrowserGetNotifications == \E i \in 1..Len(handlers) : GetNotifications(i)
WorkerForEachClose == \E i \in 1..Len(handlers) : ForEachClose(i)
BrowserShowNotification == \E i \in 1..Len(handlers) : ShowNotification(i)
WorkerAddTag == \E i \in 1..Len(handlers) : AddTag(i)

\* a browser without notification triggers: the page keeps timers
InitFallback == InitPage /\ ~capability

NextFallback ==
    \/ Load
    \/ Registered
    \/ RegistrationFails
    \/ ClickEnable
    \/ ClickDisable
    \/ TimerFires
    \/ PermissionChanges
    \/ TimePasses

SpecFallback == InitFallback /\ [][NextFallback]_vars

\* a browser with notification triggers: the page posts its schedule to the
\* worker; the timers it arms when it is loaded with reminders on stay
\* pending
InitWorker == InitPage /\ capability

NextWorker ==
    \/ Load
    \/ Registered
    \/ ClickEnable
    \/ ClickDisable
    \/ Dispatch
    \/ BrowserGetNotifications
    \/ WorkerForEachClose
    \/ BrowserShowNotification
    \/ WorkerAddTag
    \/ WorkerRestarts

SpecWorker == InitWorker /\ [][NextWorker]_vars

\* nothing is on its way to the worker and no handler is under way
Quiescent == swQueue = <<>> /\ handlers = <<>>

ArmedTags == {n.tag : n \in armed}

\* C14: after two consecutive schedule rounds (cancelReminders, then
\* scheduleReminders) have been processed completely, the armed tags are
\* the tags of the second batch, under every interleaving of the handlers.
C14_SecondBatchReplacesFirst ==
    (/\ Quiescent
     /\ sent # <<>>
     /\ sent[Len(sent)].type = "scheduleReminders"
     /\ \E k \in 1..(Len(sent) - 1) : sent[k].type = "scheduleReminders")
        => ArmedTags = Tags(sent[Len(sent)].reminders)

\* C15: after disableNotificationReminders has run and its cancelReminders
\* message has been processed, no fallback timer is live and no reminder is
\* armed, whatever came before.
C15_DisabledLeavesNothing ==
    (lastEvent.disabled /\ Quiescent) => (page.timers = {} /\ armed = {})

\* the live timers of a window
TimersOf(index) == {t \in page.timers : t.window = index}

\* C16: cancellation is synchronous: once clearScheduledNotifications (or
\* disableNotificationReminders) has returned, no timer armed before the
\* call is live, so none shows a notification or re-arms itself; the timers
\* armed afterwards are all live.
C16_ClearedTimersAreDead ==
    /\ \A t \in page.timers : t.id >= page.clearedBelow
    /\ (lastEvent.kind = "enable" /\ page.notificationsEnabled)
           => \A index \in 0..(Len(NOTIFICATION_WINDOWS) - 1) : TimersOf(index) # {}

\* C16 witness: reminders were switched on again after timers had been
\* cleared, and the new timers are live
C16_RearmedAfterClear ==
    /\ lastEvent.kind = "enable"
    /\ page.clearedBelow > 1
    /\ Cardinality(page.timers) = Len(NOTIFICATION_WINDOWS)

\* C17: on the fallback path every window has at most one live timer.
C17_OneTimerPerWindow ==
    \A index \in 0..(Len(NOTIFICATION_WINDOWS) - 1) : Cardinality(TimersOf(index)) <= 1

\* C17 witness: a timer fired, showed its notification and armed the timer
\* of its window for the next day, beside the timers of the other windows
C17_RearmedAfterFiring ==
    /\ lastEvent.kind = "timer"
    /\ lastEvent.showed
    /\ \A index \in 0..(Len(NOTIFICATION_WINDOWS) - 1) : Cardinality(TimersOf(index)) = 1

\* C18: a fallback timer that fires without permission, or with a throwing
\* Notification constructor, acts as a disable: nothing is shown, every
\* timer is cleared, notificationsEnabled is false, the stored preference
\* is removed and no timer is armed again.
C18_FailedFiringDisables ==
    (lastEvent.kind = "timer" /\ lastEvent.failed) =>
        /\ ~lastEvent.showed
        /\ page.timers = {}
        /\ page.notificationTimers = <<>>
        /\ ~page.notificationsEnabled
        /\ ~page.stored

\* C18 witness: the timer fired in vain while the timers of all windows
\* were live
C18_FiredWithoutPermission ==
    /\ lastEvent.kind = "timer"
    /\ lastEvent.failed
    /\ lastEvent.live = Len(NOTIFICATION_WINDOWS)
    /\ permission = "denied"

(***************************************************************************)
(* What purgeExpiredPosts hands back to its caller.                        *)
(***************************************************************************)
\* src/unnamed/part_000: the function has no return statement
MemPurgeResult(arr, t) == RawMissing

\* src/server.js: return result.rowCount
SqlPurgeResult(rows, t) == RawNum(Len(rows) - Len(SqlPurgeExpiredPosts(rows, t)))

PurgeResult(store, t) ==
    IF backend = "mem" THEN MemPurgeResult(store, t) ELSE SqlPurgeResult(store, t)

\* C21: in every backend a purge pass at time now removes exactly the posts
\* with timestamp < now - TTL, keeps every other post unchanged and in
\* place, and returns the number of posts it removed.
C21_PurgeRemovesAndCounts ==
    last.kind = "purge" =>
        LET Live(p) == ~Expired(p, last.at)
        IN /\ posts = SelectSeq(last.before, Live)
           /\ PurgeResult(last.before, last.at) = RawNum(Len(last.before) - Len(posts))

\* the store half of C21 alone: what a purge pass removes and keeps
C21_PurgeRemovesExpired ==
    last.kind = "purge" =>
        LET Live(p) == ~Expired(p, last.at)
        IN posts = SelectSeq(last.before, Live)

(***************************************************************************)
(* The life of a stored post.                                              *)
(***************************************************************************)
\* a step in which a like of the post with the given id is answered 200
LikeAnswered(id) ==
    /\ last'.kind = "like"
    /\ last'.status = 200
    /\ last'.req = id
    /\ now' = now

\* C22: over any sequence of create, like, list and purge operations a
\* stored post keeps its id, lat, lng, text, mood and timestamp; its likes
\* change only in a like of that very post, by one; a post enters the store
\* with likes 0 and the timestamp of its creation.
C22_OnlyLikeMutates ==
    [][/\ \A i \in 1..Len(posts) : \A j \in 1..Len(posts') :
             posts[i].id = posts'[j].id =>
                 /\ [posts'[j] EXCEPT !.likes = posts[i].likes] = posts[i]
                 /\ posts'[j].likes # posts[i].likes =>
                        /\ LikeAnswered(posts[i].id)
                        /\ posts'[j].likes = posts[i].likes + 1
       /\ \A j \in 1..Len(posts') :
             Matching(posts, posts'[j].id) = {} =>
                 /\ posts'[j].likes = 0
                 /\ posts'[j].timestamp = now
                 /\ last'.kind = "post"
                 /\ last'.status = 201]_vars

\* C22 witness: of two stored posts one was liked, later than it was
\* created, and the other has no like
C22_LikedOneOfTwo ==
    /\ Liked
    /\ Len(posts) = 2
    /\ Stored(last.req).likes = 1
    /\ Stored(last.req).timestamp < last.at
    /\ \E i \in 1..Len(posts) : posts[i].id # last.req /\ posts[i].likes = 0

\* a stored field that is a string of at least one character
NonEmpty(v) == v.type = "string" /\ v.runs # <<>>

\* C23: in every reachable store state every stored post has a non-empty
\* text or a non-null, non-empty mood; a mood is stored as null or as a
\* non-empty string, never as the empty string; a post is created with
\* likes 0.
C23_StoredPostHasContent ==
    /\ \A i \in 1..Len(posts) :
          /\ NonEmpty(posts[i].text) \/ NonEmpty(posts[i].mood)
          /\ posts[i].mood = Null \/ NonEmpty(posts[i].mood)
          /\ posts[i].text.type = "string"
    /\ Created => /\ Stored(last.json[1].id).likes = 0
                  /\ last.json[1].likes = 0

\* C23 witness: a post was created from a text and a mood of whitespace
\* only, and its mood is stored as null
C23_BlankMoodStoredAsNull ==
    /\ Created
    /\ last.req.mood = Blank
    /\ Stored(last.json[1].id).mood = Null
    /\ NonEmpty(Stored(last.json[1].id).text)

(***************************************************************************)
(* The tag of a reminder as text: the template literal renders its three   *)
(* numbers in decimal and joins them with "-".                             *)
(***************************************************************************)
DigitChars == <<"0", "1", "2", "3", "4", "5", "6", "7", "8", "9">>

\* String(k) of a natural number
NumberText(k) == [i \in 1..Len(DecimalText(k)) |-> DigitChars[DecimalText(k)[i] + 1]]

TagText(tag) ==
    <<tag[1], "-">> \o NumberText(tag[2]) \o <<"-">> \o NumberText(tag[3])
        \o <<"-">> \o NumberText(tag[4])

\* C24: buildReminderSchedule returns at most lookaheadDays x windows.length
\* (3 x 3 = 9) reminders, at most one per pair of dayOffset and window, and
\* the tags of the reminders of one batch are pairwise distinct as text.
C24_AtMostOnePerDayAndWindow ==
    /\ Len(schedule) <= REMINDER_LOOKAHEAD_DAYS * Len(NOTIFICATION_WINDOWS)
    /\ Len(schedule) <= cursor
    /\ \A k, m \in 1..Len(schedule) :
          k # m =>
              /\ <<schedule[k].tag[2], schedule[k].tag[4]>>
                     # <<schedule[m].tag[2], schedule[m].tag[4]>>
              /\ TagText(schedule[k].tag) # TagText(schedule[m].tag)

\* C24 witness: a run before the first window of the day returned a
\* reminder for every window of every day of the lookahead
C24_FullSchedule ==
    /\ cursor = Returned
    /\ Len(schedule) = REMINDER_LOOKAHEAD_DAYS * Len(NOTIFICATION_WINDOWS)
    /\ Cardinality({TagText(schedule[k].tag) : k \in 1..Len(schedule)}) = 9

(***************************************************************************)
(* Windows whose end is not after their start.  buildReminderSchedule and  *)
(* computeNextTrigger are run over a list of windows that holds two such   *)
(* windows, 10:00-10:00 and 22:00-06:00, beside an ordinary one.           *)
(***************************************************************************)
CoercedWindows == <<WindowSlot(10, 10), WindowSlot(22, 6), WindowSlot(12, 14)>>

InitCoerce == InitWindows(CoercedWindows)

\* one run of buildReminderSchedule
BuildOnce == earlier = <<>> /\ BuildStart

\* const nextTrigger = computeNextTrigger(windowSlot, new Date())
ComputeTrigger ==
    /\ cursor = Returned
    /\ \E k \in 1..Len(windows) : \E random \in Randoms :
          nextTrigger' = <<[index |-> k - 1, base |-> now,
                            time |-> ComputeNextTrigger(windows[k], now, random)]>>
    /\ UNCHANGED <<serverVars, now, processVars, windows, buildNow, cursor, schedule,
                   earlier, pageVars, workerVars>>

NextCoerce ==
    \/ BuildOnce
    \/ Build
    \/ ClockTick
    \/ ComputeTrigger

SpecCoerce == InitCoerce /\ [][NextCoerce]_vars

\* the indexes of the windows whose end is not after their start
Degenerate == {k \in 1..Len(windows) : windows[k].endHour <= windows[k].startHour}

\* the span [start, start + 1 hour) of window k on the day of the instant ms
CoercedSpan(k, ms) ==
    LET start == SetHours(DayStart(ms, 0), windows[k].startHour)
    IN [start |-> start, end |-> start + HourMs]

\* buildReminderSchedule: a run that has returned holds, for every such
\* window that had not started when the run began, a day-0 reminder inside
\* the span, unless Date.now() reached the start while the run went on
C25_BuildCoerces ==
    cursor = Returned /\ earlier # <<>> =>
        \A k \in Degenerate :
            LET span == CoercedSpan(k, buildNow)
                tag == ReminderTag(0, windows[k], k - 1)
            IN /\ \A m \in 1..Len(schedule) :
                      schedule[m].tag = tag =>
                          /\ span.start <= schedule[m].time.ms
                          /\ schedule[m].time.ms < span.end
               /\ (buildNow < span.start /\ now < span.start) => tag \in Tags(schedule)
               /\ buildNow >= span.end => tag \notin Tags(schedule)

\* computeNextTrigger: for such a window and a base before the end of the
\* span, the instant drawn lies in the span and not before the base
C25_TriggerCoerces ==
    \A m \in 1..Len(nextTrigger) :
        LET t == nextTrigger[m]
            span == CoercedSpan(t.index + 1, t.base)
        IN (t.index + 1 \in Degenerate /\ t.base < span.end) =>
               /\ span.start <= t.time.ms
               /\ t.base <= t.time.ms
               /\ t.time.ms < span.end

WindowOn(index, day) ==
    [start |-> SetHours(day * DayMs, NOTIFICATION_WINDOWS[index + 1].startHour),
     end |-> SetHours(day * DayMs, NOTIFICATION_WINDOWS[index + 1].endHour)]

\* C26: on the fallback path, while reminders stay enabled and the
\* permission stays granted, a firing of a window's timer shows exactly one
\* notification and arms exactly one timer, for the same window, that is
\* due inside that window on the following calendar day; every window has
\* a live timer and no window fires twice on one day.
C26_FiringRearmsForTomorrow ==
    /\ (lastEvent.kind = "timer" /\ lastEvent.enabled /\ ~lastEvent.failed) =>
          /\ lastEvent.shown = 1
          /\ Cardinality(lastEvent.gone) = 1
          /\ Cardinality(lastEvent.new) = 1
          /\ \A t \in lastEvent.new :
                /\ t.window \in lastEvent.gone
                /\ WindowOn(t.window, lastEvent.day + 1).start <= t.due
                /\ t.due < WindowOn(t.window, lastEvent.day + 1).end
    /\ ~page.twice
    /\ page.notificationsEnabled =>
          \A index \in 0..(Len(NOTIFICATION_WINDOWS) - 1) : TimersOf(index) # {}

\* C26 witness: the timer of the first window fired on day 0 and its
\* successor on day 1, while the first timers of the other windows are live
C26_FiredOnTwoDays ==
    /\ lastEvent.kind = "timer"
    /\ lastEvent.shown = 1
    /\ lastEvent.gone = {0}
    /\ lastEvent.day = 1
    /\ page.clearedBelow = 1
    /\ page.nextTimerId = 6
    /\ {t.id : t \in page.timers} = {2, 3, 5}

(***************************************************************************)
(* Failure of the purge pass of a request.                                 *)
(***************************************************************************)
\* a step in which a handler of server.js is answered without having got
\* past its purge pass
PurgeRejected ==
    /\ backend = "sql"
    /\ last'.kind \in Kinds
    /\ InFlight' = InFlight

\* C27: when the purge pass at the start of a GET, a POST or a like fails,
\* the store is unchanged and the request's own operation is still carried
\* out and answered normally: no such request is answered 500 because of
\* the purge, and an acceptable POST stores its post.
C27_RequestSurvivesPurgeFailure ==
    [][PurgeRejected =>
          /\ \A i \in 1..Len(posts) : \E j \in 1..Len(posts') : posts'[j] = posts[i]
          /\ last'.status = 500 => (last'.kind = "like" /\ ~last'.req.uuid)
          /\ (/\ last'.kind = "post"
              /\ FiniteCoordinates(last'.req)
              /\ SqlCandidate(last'.req).accepted) => Len(posts') = Len(posts) + 1]_vars

\* the store half of C27 alone: a request whose purge pass fails leaves the
\* stored posts as they were
C27_StoreKeptOnPurgeFailure == [][PurgeRejected => posts' = posts]_vars

\* C28: whenever no message handler of the service worker is in flight,
\* scheduledTags is empty or holds the tag of every armed reminder, so that
\* the next cancelReminders closes every armed reminder, under every
\* interleaving of overlapping handlers.
C28_CancelKnowsArmed ==
    handlers = <<>> =>
        /\ scheduledTags = {} \/ \A n \in armed : TagOf(n) \in scheduledTags
        /\ Closed(armed, scheduledTags) = armed

\* C29: at most one delivery mechanism is active at a time: in no reachable
\* state, a reload with the stored preference included, are fallback
\* timers live while reminders armed through the service worker are still
\* armed.
C29_OneMechanism == ~(page.timers # {} /\ armed # {})

\* C29 with every message processed: the two mechanisms are not both active
\* once the service worker has come to rest
C29_OneMechanismAtRest == Quiescent => C29_OneMechanism
====
